---- MODULE Spec2Model ----
(***************************************************************************)
(* A model of the AR.IO observer's assessment engine (src/src/observer.ts):*)
(* the streaming resolver getArnsResolution, the ownership probe           *)
(* assessOwnership, the name assessor Observer.assessArnsName, the name    *)
(* pool Observer.assessArnsNames and the report builder                    *)
(* Observer.generateReport.                                                *)
(*                                                                         *)
(* JavaScript values are modelled as strings.  The two "absent" values of  *)
(* the language are kept apart, as `!==` keeps them apart.                 *)
(***************************************************************************)
EXTENDS Integers, Sequences, FiniteSets, TLC

VARIABLES
    \* ---- getArnsResolution: one streaming probe ----
    body,                  \* the bytes the server would send
    delivered,             \* number of body bytes handed to 'data' listeners
    dataHash,              \* bytes fed to crypto.createHash('sha256')
    streamBytesProcessed,  \* the running counter of hashed bytes
    response,              \* the `response` local set by the 'response' event
    closeListeners,        \* number of 'close' listeners registered so far
    stream,                \* "open", "ended", "errored", "destroyed", "closed"
    promise,               \* the promise returned by getArnsResolution
    digestCalls,           \* number of calls of dataHash.digest()
    uncaught,              \* an exception escaped an event listener
    streamError,           \* the error the stream emitted
    \* ---- Observer.assessArnsName inside the mapper of assessArnsNames ----
    anPc,                  \* "reference", "target", "done"
    referenceResolution,   \* result of the probe of the reference gateway
    gatewayResolution,     \* result of the probe of the assessed host
    nameAssessment,        \* the ArnsNameAssessment the mapper returned
    probesIssued,          \* the getArnsResolution calls made, in order
    \* ---- assessOwnership: one ownership probe ----
    ownPc,                 \* "request", "done"
    expectedWallets,       \* the argument of assessOwnership
    infoResult,            \* how the request of /ar-io/info settled
    ownershipAssessment,   \* the OwnershipAssessment returned
    \* ---- the names verdict of one host (generateReport, lines 358-366) ----
    thPc,                  \* "assessing", "done"
    thPrescribedNames,     \* prescribedNames
    thChosenNames,         \* chosenNames
    thVerdict,             \* the assessment maps and the values computed from them
    \* ---- Observer.generateReport: one run ----
    observer,              \* the fields of the Observer, sources included
    grPc,                  \* the await generateReport is at, "returned", "raised"
    epochStartHeight,
    epochEndHeight,
    prescribedNames,
    chosenNames,
    gatewayHosts,
    hostWallets,           \* FQDN => wallets
    gatewayAssessments,    \* FQDN => GatewayAssessment
    hostTasks,             \* the mapper of the outer pMap, one per host entry
    report,                \* the ObserverReport returned
    raised,                \* the error generateReport rejected with
    \* ---- StaticArnsNamesSource: one source and the calls made of it ----
    addresses,             \* the list handed to the constructor
    namesSource,           \* the StaticArnsNamesSource
    getNamesCalls,         \* number of getNames calls made
    getNamesArguments,     \* the argument of the last call
    getNamesResult         \* what the last call resolved with

resolverVars == <<body, delivered, dataHash, streamBytesProcessed, response,
                  closeListeners, stream, promise, digestCalls, uncaught,
                  streamError>>

assessNameVars == <<anPc, referenceResolution, gatewayResolution, nameAssessment,
                    probesIssued>>

ownershipVars == <<ownPc, expectedWallets, infoResult, ownershipAssessment>>

thresholdVars == <<thPc, thPrescribedNames, thChosenNames, thVerdict>>

reportVars == <<observer, grPc, epochStartHeight, epochEndHeight, prescribedNames,
                chosenNames, gatewayHosts, hostWallets, gatewayAssessments,
                hostTasks, report, raised>>

namesSourceVars == <<addresses, namesSource, getNamesCalls, getNamesArguments, getNamesResult>>

vars == <<resolverVars, assessNameVars, ownershipVars, thresholdVars, reportVars,
          namesSourceVars>>

\* each specification below runs one part of the program and leaves the
\* state of the other parts alone
ResolverOnly == UNCHANGED <<assessNameVars, ownershipVars, thresholdVars, reportVars, namesSourceVars>>

AssessNameOnly == UNCHANGED <<resolverVars, ownershipVars, thresholdVars, reportVars, namesSourceVars>>

OwnershipOnly == UNCHANGED <<resolverVars, assessNameVars, thresholdVars, reportVars, namesSourceVars>>

ThresholdOnly == UNCHANGED <<resolverVars, assessNameVars, ownershipVars, reportVars, namesSourceVars>>

ReportOnly == UNCHANGED <<resolverVars, assessNameVars, ownershipVars, thresholdVars, namesSourceVars>>

NamesSourceOnly == UNCHANGED <<resolverVars, assessNameVars, ownershipVars, thresholdVars, reportVars>>

----------------------------------------------------------------------------
(* Bounds of the model. *)

MaxBodyLen == 5     \* longest response body
MaxChunk == 3       \* longest chunk of a 'data' event
MaxByte == 1        \* bytes range over 0..MaxByte

(* MAX_BYTES_TO_PROCESS is 1048576 in the source; the model scales the cap *)
(* down so that bodies below, at and above the cap are all enumerated.     *)
MAX_BYTES_TO_PROCESS == 3

MaxWallets == 3     \* most wallets claiming one FQDN
MaxPrescribed == 5  \* longest list of prescribed names
MaxChosen == 5      \* longest list of chosen names
MaxHostEntries == 3 \* most entries of the host list of a run
MaxListLength == 3  \* longest name list of a run
MaxStaticNames == 3 \* longest list a StaticArnsNamesSource is made with
MaxHeight == 2      \* heights passed to getNames range over 0..MaxHeight
MaxGetNamesCalls == 2  \* calls of getNames made of one source

----------------------------------------------------------------------------
(* JavaScript values. *)

Null == "<null>"
Undefined == "<undefined>"

Min(a, b) == IF a <= b THEN a ELSE b

\* the `??` operator
Nullish(v, d) == IF v \in {Null, Undefined} THEN d ELSE v

RECURSIVE SeqsUpTo(_, _)
SeqsUpTo(S, n) ==
    IF n = 0 THEN {<<>>}
    ELSE LET shorter == SeqsUpTo(S, n - 1)
         IN shorter \cup {Append(s, x) : s \in {t \in shorter : Len(t) = n - 1}, x \in S}

----------------------------------------------------------------------------
(* getArnsResolution *)

HeaderNames == {"x-arns-resolved-id", "x-arns-ttl-seconds", "content-type", "content-length"}

NoHeaders == [h \in HeaderNames |-> Undefined]

\* `let response: any;` before the 'response' event
NoResponse == [statusCode |-> 0, headers |-> NoHeaders, timings |-> Undefined]

FullResponse ==
    [statusCode |-> 200,
     headers |-> [h \in HeaderNames |->
                    CASE h = "x-arns-resolved-id" -> "X"
                      [] h = "x-arns-ttl-seconds" -> "60"
                      [] h = "content-type" -> "text/html"
                      [] h = "content-length" -> "5"],
     timings |-> "<timings>"]

BareResponse == [statusCode |-> 200, headers |-> NoHeaders, timings |-> "<timings>"]

StreamResponses == {FullResponse, BareResponse}

\* errors the stream can emit; statusCode is error.response.statusCode,
\* 0 when the error carries no response
StreamErrors ==
    {[name |-> "HTTPError", statusCode |-> 404, message |-> "Response code 404 (Not Found)"],
     [name |-> "HTTPError", statusCode |-> 500, message |-> "Response code 500 (Internal Server Error)"],
     [name |-> "TimeoutError", statusCode |-> 0, message |-> "Timeout awaiting 'socket' for 1000ms"]}

\* dataHash.digest('base64url'): SHA-256 is taken to be collision free, so
\* the digest is modelled as an encoding of exactly the bytes fed to it
RECURSIVE Encode(_)
Encode(bytes) ==
    IF bytes = <<>> THEN ""
    ELSE ToString(Head(bytes)) \o "." \o Encode(Tail(bytes))

Digest(bytes) == "sha256:" \o Encode(bytes)

ResolveWithResponse(resp, hashed) ==
    [statusCode |-> resp.statusCode,
     resolvedId |-> Nullish(resp.headers["x-arns-resolved-id"], Null),
     ttlSeconds |-> resp.headers["x-arns-ttl-seconds"],
     contentType |-> resp.headers["content-type"],
     contentLength |-> resp.headers["content-length"],
     dataHashDigest |-> Digest(hashed),
     timings |-> resp.timings]

\* a synthetic resolution that takes its status from the response that
\* never arrived
ResolveWith404StatusOfResponse ==
    [statusCode |-> NoResponse.statusCode,
     resolvedId |-> Null,
     ttlSeconds |-> Null,
     contentType |-> Null,
     contentLength |-> Null,
     dataHashDigest |-> Null,
     timings |-> Null]

ResolveWith404 ==
    [statusCode |-> 404,
     resolvedId |-> Null,
     ttlSeconds |-> Null,
     contentType |-> Null,
     contentLength |-> Null,
     dataHashDigest |-> Null,
     timings |-> Null]

Pending == [state |-> "pending"]

\* resolve()/reject() of a promise: only the first call settles it
Settle(p, s, v) == IF p.state = "pending" THEN [state |-> s, value |-> v] ELSE p

BytesToProcessUncapped(len, processed) == len

\* Math.min(data.length, MAX_BYTES_TO_PROCESS - streamBytesProcessed)
BytesToProcess(len, processed) == Min(len, MAX_BYTES_TO_PROCESS - processed)

\* every HTTP error taken for a missing name
IsHTTPError(error) == error.name = "HTTPError"

\* error?.response?.statusCode === 404
IsNotFound(error) == error.statusCode = 404

NoStreamError == [name |-> "none", statusCode |-> 0, message |-> ""]

Bodies == SeqsUpTo(0..MaxByte, MaxBodyLen)

ResolverInit ==
    /\ body \in Bodies
    /\ delivered = 0
    /\ dataHash = <<>>
    /\ streamBytesProcessed = 0
    /\ response = NoResponse
    /\ closeListeners = 0
    /\ stream = "open"
    /\ promise = Pending
    /\ digestCalls = 0
    /\ uncaught = FALSE
    /\ streamError = NoStreamError

\* stream.on('response', ...)
OnResponse(resp) ==
    /\ stream = "open"
    /\ response = NoResponse
    /\ response' = resp
    /\ UNCHANGED <<body, delivered, dataHash, streamBytesProcessed,
                   closeListeners, stream, promise, digestCalls, uncaught,
                   streamError>>
    /\ ResolverOnly

\* stream.on('data', ...): a chunk of n bytes.  Chunks already buffered by
\* the stream are still handed to the listener after stream.destroy(),
\* until 'close' is emitted.
OnData(n) ==
    /\ stream \in {"open", "destroyed"}
    /\ response # NoResponse
    /\ n \in 1..Min(MaxChunk, Len(body) - delivered)
    /\ LET data == SubSeq(body, delivered + 1, delivered + n)
           bytesToProcess == BytesToProcess(Len(data), streamBytesProcessed)
           processed == IF bytesToProcess > 0
                        THEN streamBytesProcessed + bytesToProcess
                        ELSE streamBytesProcessed
       IN /\ delivered' = delivered + n
          /\ dataHash' = IF bytesToProcess > 0
                         THEN dataHash \o SubSeq(data, 1, bytesToProcess)
                         ELSE dataHash
          /\ streamBytesProcessed' = processed
          /\ IF processed >= MAX_BYTES_TO_PROCESS
             THEN /\ closeListeners' = closeListeners + 1
                  /\ stream' = "destroyed"
             ELSE UNCHANGED <<closeListeners, stream>>
    /\ UNCHANGED <<body, response, promise, digestCalls, uncaught, streamError>>
    /\ ResolverOnly

\* stream.on('end', ...)
OnEnd ==
    /\ stream = "open"
    /\ response # NoResponse
    /\ delivered = Len(body)
    /\ stream' = "ended"
    /\ IF digestCalls = 0
       THEN /\ promise' = Settle(promise, "resolved", ResolveWithResponse(response, dataHash))
            /\ UNCHANGED uncaught
       ELSE /\ uncaught' = TRUE
            /\ UNCHANGED promise
    /\ digestCalls' = digestCalls + 1
    /\ UNCHANGED <<body, delivered, dataHash, streamBytesProcessed, response,
                   closeListeners, streamError>>
    /\ ResolverOnly

\* stream.on('error', ...).  An HTTP error takes the place of the
\* 'response' event; a transport error can come at any time before the end.
OnError(error) ==
    /\ stream = "open"
    /\ error.name = "HTTPError" => response = NoResponse
    /\ stream' = "errored"
    /\ streamError' = error
    /\ promise' = IF IsNotFound(error)
                  THEN Settle(promise, "resolved", ResolveWith404)
                  ELSE Settle(promise, "rejected", error)
    /\ UNCHANGED <<body, delivered, dataHash, streamBytesProcessed, response,
                   closeListeners, digestCalls, uncaught>>
    /\ ResolverOnly

\* 'close': runs the listeners registered by the 'data' handler, each of
\* which calls resolveWithResponse(response); digest() throws when the hash
\* was finalized before, and the exception leaves the listener
OnClose ==
    /\ stream \in {"ended", "errored", "destroyed"}
    /\ stream' = "closed"
    /\ IF closeListeners = 0
       THEN UNCHANGED <<promise, digestCalls, uncaught>>
       ELSE IF digestCalls = 0
            THEN /\ promise' = Settle(promise, "resolved", ResolveWithResponse(response, dataHash))
                 /\ digestCalls' = IF closeListeners > 1 THEN 2 ELSE 1
                 /\ uncaught' = (closeListeners > 1)
            ELSE /\ digestCalls' = digestCalls + 1
                 /\ uncaught' = TRUE
                 /\ UNCHANGED promise
    /\ UNCHANGED <<body, delivered, dataHash, streamBytesProcessed, response,
                   closeListeners, streamError>>
    /\ ResolverOnly

ResolverNext ==
    \/ \E resp \in StreamResponses : OnResponse(resp)
    \/ \E n \in 1..MaxChunk : OnData(n)
    \/ OnEnd
    \/ \E error \in StreamErrors : OnError(error)
    \/ OnClose

ResolverIdle ==
    /\ body = <<>>
    /\ delivered = 0
    /\ dataHash = <<>>
    /\ streamBytesProcessed = 0
    /\ response = NoResponse
    /\ closeListeners = 0
    /\ stream = "closed"
    /\ promise = Pending
    /\ digestCalls = 0
    /\ uncaught = FALSE
    /\ streamError = NoStreamError

----------------------------------------------------------------------------
(* Observer.assessArnsName and the mapper of Observer.assessArnsNames *)

CheckedPropertiesWithLength == <<"resolvedId", "ttlSeconds", "contentType", "contentLength", "dataHashDigest">>

CheckedProperties == <<"resolvedId", "ttlSeconds", "contentType", "dataHashDigest">>

\* the loop over checkedProperties; acc is <<pass, failureReason>>
RECURSIVE CheckProperties(_, _, _, _)
CheckProperties(properties, reference, gateway, acc) ==
    IF properties = <<>> THEN acc
    ELSE LET property == Head(properties)
             next == IF reference[property] # gateway[property]
                     THEN <<FALSE,
                            (IF acc[2] # Undefined THEN acc[2] \o ", " ELSE "")
                               \o property \o " mismatch">>
                     ELSE acc
         IN CheckProperties(Tail(properties), reference, gateway, next)

\* gatewayResolution?.timings?.phases
Phases(resolution) ==
    IF resolution.timings \in {Null, Undefined} THEN Undefined ELSE "<phases>"

\* the value assessArnsName returns once both probes have resolved
AssessArnsName(reference, gateway) ==
    LET checked == CheckProperties(CheckedProperties, reference, gateway, <<TRUE, Undefined>>)
    IN [assessedAt |-> "<now>",
        expectedStatusCode |-> reference.statusCode,
        resolvedStatusCode |-> gateway.statusCode,
        expectedId |-> Nullish(reference.resolvedId, Null),
        resolvedId |-> Nullish(gateway.resolvedId, Null),
        expectedDataHash |-> Nullish(reference.dataHashDigest, Null),
        resolvedDataHash |-> Nullish(gateway.dataHashDigest, Null),
        failureReason |-> checked[2],
        pass |-> checked[1],
        timings |-> Phases(gateway)]

FAILURE_REASON_LENGTH == 512

KeepMessage(message) == message

\* errorMessage?.slice(0, 512)
SliceMessage(message) ==
    IF message = Undefined THEN Undefined
    ELSE SubSeq(message, 1, Min(Len(message), FAILURE_REASON_LENGTH))

\* the `catch (err)` branch of the mapper; every rejection of
\* getArnsResolution is a RequestError, whose message is a string
CatchAssessment(err) ==
    [assessedAt |-> "<now>",
     expectedId |-> Null,
     resolvedId |-> Null,
     expectedDataHash |-> Null,
     resolvedDataHash |-> Null,
     failureReason |-> SliceMessage(err.message),
     pass |-> FALSE]

RECURSIVE Repeat(_, _)
Repeat(c, n) ==
    IF n = 0 THEN ""
    ELSE IF n = 1 THEN c
    ELSE Repeat(c, n \div 2) \o Repeat(c, n - (n \div 2))

\* rejections of a probe: the stream errors that are not a 404, with
\* messages below, at and above the length the mapper keeps
ProbeErrors ==
    {e \in StreamErrors : e.statusCode # 404}
      \cup {[name |-> "RequestError", statusCode |-> 0, message |-> Repeat("m", n)] :
              n \in {0, FAILURE_REASON_LENGTH - 1, FAILURE_REASON_LENGTH,
                     FAILURE_REASON_LENGTH + 1, FAILURE_REASON_LENGTH + 88}}

HeaderValues(h) ==
    CASE h = "x-arns-resolved-id" -> {Undefined, "X", "Y"}
      [] h = "x-arns-ttl-seconds" -> {Undefined, "60"}
      [] h = "content-type" -> {Undefined, "text/html"}
      [] h = "content-length" -> {Undefined, "5"}

ProbeResponses ==
    {[statusCode |-> code, headers |-> hs, timings |-> "<timings>"] :
        code \in {200, 204}, hs \in {f \in [HeaderNames -> {Undefined, "X", "Y", "60", "text/html", "5"}] :
                                        \A h \in HeaderNames : f[h] \in HeaderValues(h)}}

HashedInputs == {<<>>, <<0>>, <<1>>}

\* what a probe can resolve with
ProbeResolutions ==
    {ResolveWithResponse(resp, hashed) : resp \in ProbeResponses, hashed \in HashedInputs}
      \cup {ResolveWith404}

NoResolution == [statusCode |-> 0]

NoAssessment == [assessedAt |-> Undefined]

\* both probes issued at once and awaited together
IssuedOnCallBoth == <<"reference", "target">>

\* getArnsResolution({ host: this.referenceGatewayHost, arnsName }) is the
\* first statement of assessArnsName
IssuedOnCall == <<"reference">>

AssessNameIdle ==
    /\ anPc = "done"
    /\ referenceResolution = NoResolution
    /\ gatewayResolution = NoResolution
    /\ nameAssessment = NoAssessment
    /\ probesIssued = <<>>

\* assessArnsName issues the probe of the reference gateway when called
AssessNameInit ==
    /\ anPc = "reference"
    /\ referenceResolution = NoResolution
    /\ gatewayResolution = NoResolution
    /\ nameAssessment = NoAssessment
    /\ probesIssued = IssuedOnCall

\* the reference probe resolves: the probe of the host is issued
ReferenceResolves(resolution) ==
    /\ anPc = "reference"
    /\ referenceResolution' = resolution
    /\ anPc' = "target"
    /\ probesIssued' = Append(probesIssued, "target")
    /\ UNCHANGED <<gatewayResolution, nameAssessment>>
    /\ AssessNameOnly

\* the reference probe rejects: the mapper catches
ReferenceRejects(err) ==
    /\ anPc = "reference"
    /\ nameAssessment' = CatchAssessment(err)
    /\ anPc' = "done"
    /\ UNCHANGED <<referenceResolution, gatewayResolution, probesIssued>>
    /\ AssessNameOnly

GatewayResolves(resolution) ==
    /\ anPc = "target"
    /\ gatewayResolution' = resolution
    /\ nameAssessment' = AssessArnsName(referenceResolution, resolution)
    /\ anPc' = "done"
    /\ UNCHANGED <<referenceResolution, probesIssued>>
    /\ AssessNameOnly

GatewayRejects(err) ==
    /\ anPc = "target"
    /\ nameAssessment' = CatchAssessment(err)
    /\ anPc' = "done"
    /\ UNCHANGED <<referenceResolution, gatewayResolution, probesIssued>>
    /\ AssessNameOnly

AssessNameNext ==
    \/ \E resolution \in ProbeResolutions : ReferenceResolves(resolution)
    \/ \E err \in ProbeErrors : ReferenceRejects(err)
    \/ \E resolution \in ProbeResolutions : GatewayResolves(resolution)
    \/ \E err \in ProbeErrors : GatewayRejects(err)

----------------------------------------------------------------------------
(* assessOwnership *)

RECURSIVE Join(_, _)
\* Array.prototype.join
Join(strings, separator) ==
    IF strings = <<>> THEN ""
    ELSE IF Len(strings) = 1 THEN strings[1]
    ELSE strings[1] \o separator \o Join(Tail(strings), separator)

PresentWallet(v) == v # Undefined

\* truthiness of a string or absent value, as `if (resp?.wallet)` tests it
Truthy(v) == v \notin {Null, Undefined, ""}

Includes(array, v) == \E i \in 1..Len(array) : array[i] = v

\* the value assessOwnership returns when the request resolved with a JSON
\* body; wallet is resp?.wallet, Undefined when the body has no wallet or is
\* not an object
OwnershipOfWallet(expected, wallet) ==
    IF Truthy(wallet)
    THEN IF ~Includes(expected, wallet)
         THEN [expectedWallets |-> expected,
               observedWallet |-> Null,
               failureReason |-> "Wallet mismatch: expected one of "
                                    \o Join(expected, ", ") \o " but found " \o wallet,
               pass |-> FALSE]
         ELSE [expectedWallets |-> expected,
               observedWallet |-> wallet,
               pass |-> TRUE]
    ELSE [expectedWallets |-> expected,
          observedWallet |-> Null,
          failureReason |-> "No wallet found",
          pass |-> FALSE]

\* the `catch (error)` branch of assessOwnership
OwnershipOfError(expected, error) ==
    [expectedWallets |-> expected,
     observedWallet |-> Null,
     failureReason |-> error.message,
     pass |-> FALSE]

\* wallets of the host list
WalletIds == {"A", "B", "C"}

\* the order of Array.prototype.sort() on these strings
WalletRank(w) == CASE w = "" -> 0 [] w = "A" -> 1 [] w = "B" -> 2 [] w = "C" -> 3 [] w = "Z" -> 4

IsSorted(array) == \A i \in 1..(Len(array) - 1) : WalletRank(array[i]) <= WalletRank(array[i + 1])

\* the caller passes hostWallets[fqdn].sort(): sorted, never empty
ExpectedWalletLists == {ws \in SeqsUpTo(WalletIds, MaxWallets) : ws # <<>> /\ IsSorted(ws)}

\* resp?.wallet of the JSON bodies a gateway can answer with
InfoWallets == WalletIds \cup {"Z", "", Undefined}

InfoErrors ==
    {[name |-> "TimeoutError", message |-> "Timeout awaiting 'request' for 2000ms"],
     [name |-> "ParseError", message |-> "Unexpected token < in JSON at position 0"]}

NoOwnership == [pass |-> FALSE, observedWallet |-> Undefined]

OwnershipIdle ==
    /\ ownPc = "done"
    /\ expectedWallets = <<>>
    /\ infoResult = [kind |-> "none"]
    /\ ownershipAssessment = NoOwnership

OwnershipInit ==
    /\ ownPc = "request"
    /\ expectedWallets \in ExpectedWalletLists
    /\ infoResult = [kind |-> "none"]
    /\ ownershipAssessment = NoOwnership

\* got.get(url).json() resolves
InfoResolves(wallet) ==
    /\ ownPc = "request"
    /\ infoResult' = [kind |-> "json", wallet |-> wallet]
    /\ ownershipAssessment' = OwnershipOfWallet(expectedWallets, wallet)
    /\ ownPc' = "done"
    /\ UNCHANGED expectedWallets
    /\ OwnershipOnly

\* got.get(url).json() rejects: transport, HTTP or parse error
InfoRejects(error) ==
    /\ ownPc = "request"
    /\ infoResult' = [kind |-> "error", message |-> error.message]
    /\ ownershipAssessment' = OwnershipOfError(expectedWallets, error)
    /\ ownPc' = "done"
    /\ UNCHANGED expectedWallets
    /\ OwnershipOnly

OwnershipNext ==
    \/ \E wallet \in InfoWallets : InfoResolves(wallet)
    \/ \E error \in InfoErrors : InfoRejects(error)

----------------------------------------------------------------------------
(* The names verdict of a host: generateReport, lines 358-366 *)

Range(f) == {f[x] : x \in DOMAIN f}

\* results.reduce(...) of assessArnsNames: a later index overwrites an
\* earlier one of the same name
ReduceAssessments(names, results) ==
    [name \in Range(names) |->
        results[CHOOSE i \in 1..Len(names) :
                   /\ names[i] = name
                   /\ \A j \in (i + 1)..Len(names) : names[j] # name]]

\* the values of the two maps put side by side, none replacing another
SpreadSideBySide(prescribed, chosen) ==
    [key \in ({"prescribed"} \X DOMAIN prescribed) \cup ({"chosen"} \X DOMAIN chosen) |->
        IF key[1] = "prescribed" THEN prescribed[key[2]] ELSE chosen[key[2]]]

SpreadPrescribedLast(prescribed, chosen) ==
    [name \in DOMAIN prescribed \cup DOMAIN chosen |->
        IF name \in DOMAIN prescribed THEN prescribed[name] ELSE chosen[name]]

\* {...prescribedAssessments, ...chosenAssessments}
Spread(prescribed, chosen) ==
    [name \in DOMAIN prescribed \cup DOMAIN chosen |->
        IF name \in DOMAIN chosen THEN chosen[name] ELSE prescribed[name]]

\* new Set([...prescribedNames, ...chosenNames]).size
NameCount(prescribed, chosen) == Cardinality(Range(prescribed) \cup Range(chosen))

\* Object.values(...).reduce((count, a) => a.pass ? count + 1 : count, 0)
PassCount(assessments) == Cardinality({key \in DOMAIN assessments : assessments[key].pass})

\* NAME_PASS_THRESHOLD is 0.8, held here as the fraction 4/5.  The double
\* nearest 0.8 is 0.8 * (1 + 2^-54); for a name count that is a multiple of 5
\* the product rounds to the exact integer, and for any other count the
\* exact product is at least 0.2 away from every integer, so the comparison
\* in doubles decides as the comparison in fractions does.
NAME_PASS_THRESHOLD == <<4, 5>>

StrictlyAbove(passCount, nameCount) ==
    passCount * NAME_PASS_THRESHOLD[2] > nameCount * NAME_PASS_THRESHOLD[1]

\* namePassCount >= nameCount * NAME_PASS_THRESHOLD
NamesPass(passCount, nameCount) ==
    passCount * NAME_PASS_THRESHOLD[2] >= nameCount * NAME_PASS_THRESHOLD[1]

\* lines 358-366 for the assessment maps of one host
NamesVerdict(prescribedList, chosenList, prescribedAssessments, chosenAssessments) ==
    LET nameCount == NameCount(prescribedList, chosenList)
        namePassCount == PassCount(Spread(prescribedAssessments, chosenAssessments))
    IN [prescribedNames |-> prescribedAssessments,
        chosenNames |-> chosenAssessments,
        nameCount |-> nameCount,
        namePassCount |-> namePassCount,
        pass |-> NamesPass(namePassCount, nameCount)]

NameOf(i) == "n" \o ToString(i)

\* the lists the name sources return: the prescribed names n1..np and the
\* chosen names ns..n(s+c-1), which overlap the prescribed ones when s <= p
NameListPairs ==
    {<<[i \in 1..p |-> NameOf(i)], [i \in 1..c |-> NameOf(s + i - 1)]>> :
        p \in 0..MaxPrescribed, c \in 0..MaxChosen, s \in 1..(MaxPrescribed + 1)}

PassingAssessment ==
    AssessArnsName(ResolveWithResponse(FullResponse, <<0>>), ResolveWithResponse(FullResponse, <<0>>))

MismatchAssessment ==
    AssessArnsName(ResolveWithResponse(FullResponse, <<0>>), ResolveWithResponse(FullResponse, <<1>>))

NoVerdict == [pass |-> FALSE, nameCount |-> -1]

ThresholdIdle ==
    /\ thPc = "done"
    /\ thPrescribedNames = <<>>
    /\ thChosenNames = <<>>
    /\ thVerdict = NoVerdict

ThresholdInit ==
    /\ thPc = "assessing"
    /\ \E pair \in NameListPairs :
          /\ thPrescribedNames = pair[1]
          /\ thChosenNames = pair[2]
    /\ thVerdict = NoVerdict

\* both assessArnsNames calls have returned, with the given verdicts of the
\* name assessments, and the names verdict is computed
ComputeNamesPass(prescribedPasses, chosenPasses) ==
    /\ thPc = "assessing"
    /\ LET assessment(passes) == IF passes THEN PassingAssessment ELSE MismatchAssessment
           prescribedAssessments ==
               ReduceAssessments(thPrescribedNames,
                                 [i \in 1..Len(thPrescribedNames) |-> assessment(prescribedPasses[i])])
           chosenAssessments ==
               ReduceAssessments(thChosenNames,
                                 [i \in 1..Len(thChosenNames) |-> assessment(chosenPasses[i])])
       IN thVerdict' = NamesVerdict(thPrescribedNames, thChosenNames,
                                    prescribedAssessments, chosenAssessments)
    /\ thPc' = "done"
    /\ UNCHANGED <<thPrescribedNames, thChosenNames>>
    /\ ThresholdOnly

ThresholdNext ==
    \E prescribedPasses \in [1..Len(thPrescribedNames) -> BOOLEAN],
       chosenPasses \in [1..Len(thChosenNames) -> BOOLEAN] :
        ComputeNamesPass(prescribedPasses, chosenPasses)

----------------------------------------------------------------------------
(* pMap *)

StartAll(concurrency, length) == length

\* the number of mappers pMap starts when called
StartCount(concurrency, length) == Min(concurrency, length)

WaitingTask(pcs) == {i \in 1..Len(pcs) : pcs[i] = "waiting"}

\* the item pMap's next() takes when a mapper has resolved, 0 when the
\* iterator is exhausted
NextWaiting(pcs) ==
    IF WaitingTask(pcs) = {} THEN 0
    ELSE CHOOSE i \in WaitingTask(pcs) : \A j \in WaitingTask(pcs) : i <= j

----------------------------------------------------------------------------
(* Observer.assessArnsNames: the pool of name mappers of one list *)

NoError == [name |-> "none"]

WaitingName ==
    [pc |-> "waiting", reference |-> NoResolution, gateway |-> NoResolution,
     error |-> NoError, result |-> NoAssessment]

\* a mapper that was started has called assessArnsName, which has issued
\* the probe of the reference gateway
StartedName == [WaitingName EXCEPT !.pc = "reference"]

\* pMap(names, mapper, {concurrency: this.nameAssessmentConcurrency})
StartPool(names) ==
    [i \in 1..Len(names) |->
        IF i <= StartCount(observer.nameAssessmentConcurrency, Len(names))
        THEN StartedName ELSE WaitingName]

Pcs(tasks) == [i \in 1..Len(tasks) |-> tasks[i].pc]

\* a mapper has settled: pMap starts the next name, if any
StartNextName(tasks) ==
    LET next == NextWaiting(Pcs(tasks))
    IN IF next = 0 THEN tasks ELSE [tasks EXCEPT ![next] = StartedName]

\* pMap resolves when every mapper has resolved
PoolDone(tasks) == \A i \in 1..Len(tasks) : tasks[i].pc = "done"

PoolRejected(tasks) == \E i \in 1..Len(tasks) : tasks[i].pc = "rejected"

Results(tasks) == [i \in 1..Len(tasks) |-> tasks[i].result]

MapperRethrows(task, err) == [task EXCEPT !.pc = "rejected", !.error = err]

\* the try/catch of the mapper around assessArnsName
MapperCatches(task, err) ==
    [task EXCEPT !.pc = "done", !.error = err, !.result = CatchAssessment(err)]

----------------------------------------------------------------------------
(* Observer.generateReport *)

REPORT_FORMAT_VERSION == 1

EmptyMap == [key \in {} |-> key]

\* object[key] = value
Put(object, key, value) ==
    [k \in DOMAIN object \cup {key} |-> IF k = key THEN value ELSE object[k]]

RECURSIVE WalletsOf(_, _)
\* the wallets pushed under one FQDN, in the order of the host list
WalletsOf(hosts, fqdn) ==
    IF hosts = <<>> THEN <<>>
    ELSE (IF Head(hosts).fqdn = fqdn THEN <<Head(hosts).wallet>> ELSE <<>>)
            \o WalletsOf(Tail(hosts), fqdn)

\* gatewayHosts.forEach((host) => (hostWallets[host.fqdn] ||= []).push(host.wallet))
GroupWallets(hosts) ==
    [fqdn \in {hosts[i].fqdn : i \in 1..Len(hosts)} |-> WalletsOf(hosts, fqdn)]

RECURSIVE Insert(_, _)
Insert(sorted, w) ==
    IF sorted = <<>> THEN <<w>>
    ELSE IF WalletRank(w) < WalletRank(Head(sorted)) THEN <<w>> \o sorted
    ELSE <<Head(sorted)>> \o Insert(Tail(sorted), w)

RECURSIVE Sort(_)
\* Array.prototype.sort() with the default order
Sort(array) == IF array = <<>> THEN <<>> ELSE Insert(Sort(SubSeq(array, 1, Len(array) - 1)), array[Len(array)])

WaitingHost ==
    [pc |-> "waiting", ownershipAssessment |-> NoOwnership,
     prescribedTasks |-> <<>>, chosenTasks |-> <<>>,
     prescribedAssessments |-> EmptyMap, chosenAssessments |-> EmptyMap]

\* a host mapper that was started has sorted the wallets of its FQDN and
\* called assessOwnership, which has issued the request of /ar-io/info
StartedHost == [WaitingHost EXCEPT !.pc = "ownership"]

PassOfNamesAlone(ownershipPass, namesPass) == namesPass

\* pass: ownershipAssessment.pass && namesPass
GatewayPass(ownershipPass, namesPass) == ownershipPass /\ namesPass

\* the entry a host mapper writes into gatewayAssessments
GatewayAssessment(host) ==
    LET verdict == NamesVerdict(prescribedNames, chosenNames,
                                host.prescribedAssessments, host.chosenAssessments)
    IN [ownershipAssessment |-> host.ownershipAssessment,
        arnsAssessments |-> [prescribedNames |-> verdict.prescribedNames,
                             chosenNames |-> verdict.chosenNames,
                             pass |-> verdict.pass],
        pass |-> GatewayPass(host.ownershipAssessment.pass, verdict.pass)]

\* the second assessArnsNames call has settled
AfterChosen(host) ==
    IF PoolRejected(host.chosenTasks) THEN [host EXCEPT !.pc = "rejected"]
    ELSE IF PoolDone(host.chosenTasks)
    THEN [host EXCEPT !.pc = "done",
                      !.chosenAssessments = ReduceAssessments(chosenNames, Results(host.chosenTasks))]
    ELSE host

\* await this.assessArnsNames({host: host.fqdn, names: chosenNames})
EnterChosen(host) ==
    AfterChosen([host EXCEPT !.pc = "chosen", !.chosenTasks = StartPool(chosenNames)])

\* the first assessArnsNames call has settled: the second one is made only
\* then, each element of the array given to Promise.all being awaited
AfterPrescribed(host) ==
    IF PoolRejected(host.prescribedTasks) THEN [host EXCEPT !.pc = "rejected"]
    ELSE IF PoolDone(host.prescribedTasks)
    THEN EnterChosen([host EXCEPT !.prescribedAssessments =
                         ReduceAssessments(prescribedNames, Results(host.prescribedTasks))])
    ELSE host

\* await this.assessArnsNames({host: host.fqdn, names: prescribedNames})
EnterPrescribed(host) ==
    AfterPrescribed([host EXCEPT !.pc = "prescribed", !.prescribedTasks = StartPool(prescribedNames)])

HostPcs(tasks) == [h \in 1..Len(tasks) |-> tasks[h].pc]

\* the ObserverReport of the return statement
Report(assessments) ==
    [formatVersion |-> REPORT_FORMAT_VERSION,
     observerAddress |-> observer.observerAddress,
     epochStartHeight |-> epochStartHeight,
     epochEndHeight |-> epochEndHeight,
     generatedAt |-> "<now>",
     gatewayAssessments |-> assessments]

NoReport == [formatVersion |-> 0]

\* what a rejected mapper of the inner pMap rejected with
RejectionOf(host) ==
    LET tasks == IF PoolRejected(host.prescribedTasks) THEN host.prescribedTasks ELSE host.chosenTasks
    IN tasks[CHOOSE i \in 1..Len(tasks) : tasks[i].pc = "rejected"].error

\* an outer pool that settles with the first host mapper that does
FirstHostDone(pcs) == \E i \in 1..Len(pcs) : pcs[i] = "done"

\* `await pMap(gatewayHosts, ...)` resolves when every host mapper has
AllHostsDone(pcs) == \A i \in 1..Len(pcs) : pcs[i] = "done"

\* the mapper of host entry h has come to `host`.  When it has finished it
\* writes its entry and the outer pMap starts the next host entry, whose
\* mapper sorts the wallets of its FQDN in place; when every mapper has
\* finished generateReport returns; when a mapper rejects the outer pMap
\* rejects and generateReport raises.
Commit(h, host) ==
    LET tasks == [hostTasks EXCEPT ![h] = host]
        next == NextWaiting(HostPcs(tasks))
        started == IF host.pc = "done" /\ next # 0
                   THEN [tasks EXCEPT ![next] = StartedHost] ELSE tasks
        assessments == IF host.pc = "done"
                       THEN Put(gatewayAssessments, gatewayHosts[h].fqdn, GatewayAssessment(host))
                       ELSE gatewayAssessments
    IN /\ hostTasks' = started
       /\ gatewayAssessments' = assessments
       /\ hostWallets' = IF host.pc = "done" /\ next # 0
                         THEN [hostWallets EXCEPT ![gatewayHosts[next].fqdn] = Sort(@)]
                         ELSE hostWallets
       /\ IF host.pc = "rejected" /\ grPc = "assessing"
          THEN grPc' = "raised" /\ raised' = RejectionOf(host) /\ UNCHANGED report
          ELSE IF grPc = "assessing" /\ AllHostsDone(HostPcs(started))
          THEN grPc' = "returned" /\ report' = Report(assessments) /\ UNCHANGED raised
          ELSE UNCHANGED <<grPc, report, raised>>
       /\ UNCHANGED <<observer, epochStartHeight, epochEndHeight, prescribedNames,
                      chosenNames, gatewayHosts>>
       /\ ReportOnly

Host(fqdn, wallet) == [fqdn |-> fqdn, wallet |-> wallet]

Observer(hosts, prescribed, chosen, gatewayConcurrency, nameConcurrency) ==
    [observerAddress |-> "<observer>",
     referenceGatewayHost |-> "<reference>",
     epochHeightSource |-> [start |-> 100, end |-> 200],
     observedGatewayHostList |-> hosts,
     prescribedNamesSource |-> prescribed,
     chosenNamesSource |-> chosen,
     gatewayAsessementConcurrency |-> gatewayConcurrency,
     nameAssessmentConcurrency |-> nameConcurrency]

\* the observers the runs are made with: a FQDN claimed twice and assessed
\* by two concurrent mappers, with a name on both lists; three host entries
\* over two FQDNs in a pool of two; one host with more names than the name
\* pool admits; a host without names; no host; a host list that repeats an
\* entry
Observers ==
    {Observer(<<Host("g1", "B"), Host("g1", "A")>>, <<"n1">>, <<"n1", "n2">>, 2, 1),
     Observer(<<Host("g1", "B"), Host("g2", "C"), Host("g1", "A")>>, <<"n1">>, <<"n2">>, 2, 1),
     Observer(<<Host("g1", "A")>>, <<"n1", "n2", "n3">>, <<"n3">>, 1, 2),
     Observer(<<Host("g1", "A"), Host("g2", "B")>>, <<>>, <<>>, 1, 1),
     Observer(<<>>, <<"n1">>, <<>>, 1, 1),
     Observer(<<Host("g1", "B"), Host("g1", "A"), Host("g1", "B")>>, <<>>, <<>>, 2, 1)}

Sources == {"getEpochStartHeight", "getEpochEndHeight", "prescribedNames", "chosenNames", "getHosts"}

\* what the probes of a run resolve or reject with
ReferenceResolutions == {ResolveWithResponse(FullResponse, <<0>>)}

GatewayResolutions == {ResolveWithResponse(FullResponse, <<0>>), ResolveWithResponse(FullResponse, <<1>>)}

ReferenceErrors == {e \in ProbeErrors : e.name = "TimeoutError"}

GatewayErrors == {e \in ProbeErrors : Len(e.message) = FAILURE_REASON_LENGTH + 1}

HostInfoWallets == {"A"}

HostInfoErrors == {e \in InfoErrors : e.name = "TimeoutError"}

ReportStart(o) ==
    /\ observer = o
    /\ grPc = "getEpochStartHeight"
    /\ epochStartHeight = 0
    /\ epochEndHeight = 0
    /\ prescribedNames = <<>>
    /\ chosenNames = <<>>
    /\ gatewayHosts = <<>>
    /\ hostWallets = EmptyMap
    /\ gatewayAssessments = EmptyMap
    /\ hostTasks = <<>>
    /\ report = NoReport
    /\ raised = NoError

ReportIdle ==
    /\ observer = Observer(<<>>, <<>>, <<>>, 1, 1)
    /\ grPc = "idle"
    /\ epochStartHeight = 0
    /\ epochEndHeight = 0
    /\ prescribedNames = <<>>
    /\ chosenNames = <<>>
    /\ gatewayHosts = <<>>
    /\ hostWallets = EmptyMap
    /\ gatewayAssessments = EmptyMap
    /\ hostTasks = <<>>
    /\ report = NoReport
    /\ raised = NoError

ReportInit == \E o \in Observers : ReportStart(o)

GetEpochStartHeight ==
    /\ grPc = "getEpochStartHeight"
    /\ epochStartHeight' = observer.epochHeightSource.start
    /\ grPc' = "getEpochEndHeight"
    /\ UNCHANGED <<observer, epochEndHeight, prescribedNames, chosenNames, gatewayHosts,
                   hostWallets, gatewayAssessments, hostTasks, report, raised>>
    /\ ReportOnly

GetEpochEndHeight ==
    /\ grPc = "getEpochEndHeight"
    /\ epochEndHeight' = observer.epochHeightSource.end
    /\ grPc' = "prescribedNames"
    /\ UNCHANGED <<observer, epochStartHeight, prescribedNames, chosenNames, gatewayHosts,
                   hostWallets, gatewayAssessments, hostTasks, report, raised>>
    /\ ReportOnly

GetPrescribedNames ==
    /\ grPc = "prescribedNames"
    /\ prescribedNames' = observer.prescribedNamesSource
    /\ grPc' = "chosenNames"
    /\ UNCHANGED <<observer, epochStartHeight, epochEndHeight, chosenNames, gatewayHosts,
                   hostWallets, gatewayAssessments, hostTasks, report, raised>>
    /\ ReportOnly

GetChosenNames ==
    /\ grPc = "chosenNames"
    /\ chosenNames' = observer.chosenNamesSource
    /\ grPc' = "getHosts"
    /\ UNCHANGED <<observer, epochStartHeight, epochEndHeight, prescribedNames, gatewayHosts,
                   hostWallets, gatewayAssessments, hostTasks, report, raised>>
    /\ ReportOnly

\* getHosts() returns: the wallets are grouped by FQDN and the outer pMap
\* starts its first mappers, each sorting the wallets of its FQDN
GetHosts ==
    /\ grPc = "getHosts"
    /\ LET hosts == observer.observedGatewayHostList
           count == StartCount(observer.gatewayAsessementConcurrency, Len(hosts))
           grouped == GroupWallets(hosts)
           startedFqdns == {hosts[i].fqdn : i \in 1..count}
       IN /\ gatewayHosts' = hosts
          /\ hostWallets' = [fqdn \in DOMAIN grouped |->
                                IF fqdn \in startedFqdns THEN Sort(grouped[fqdn]) ELSE grouped[fqdn]]
          /\ hostTasks' = [i \in 1..Len(hosts) |-> IF i <= count THEN StartedHost ELSE WaitingHost]
          /\ IF hosts = <<>>
             THEN grPc' = "returned" /\ report' = Report(gatewayAssessments)
             ELSE grPc' = "assessing" /\ UNCHANGED report
    /\ UNCHANGED <<observer, epochStartHeight, epochEndHeight, prescribedNames, chosenNames,
                   gatewayAssessments, raised>>
    /\ ReportOnly

\* a Source call rejects: generateReport raises
SourceThrows ==
    /\ grPc \in Sources
    /\ grPc' = "raised"
    /\ raised' = [name |-> "SourceError", message |-> grPc]
    /\ UNCHANGED <<observer, epochStartHeight, epochEndHeight, prescribedNames, chosenNames,
                   gatewayHosts, hostWallets, gatewayAssessments, hostTasks, report>>
    /\ ReportOnly

\* the request of /ar-io/info of host entry h resolves
HostInfoResolves(h, wallet) ==
    /\ h \in 1..Len(hostTasks)
    /\ hostTasks[h].pc = "ownership"
    /\ Commit(h, EnterPrescribed([hostTasks[h] EXCEPT !.ownershipAssessment =
                  OwnershipOfWallet(hostWallets[gatewayHosts[h].fqdn], wallet)]))

\* the request of /ar-io/info of host entry h rejects
HostInfoRejects(h, error) ==
    /\ h \in 1..Len(hostTasks)
    /\ hostTasks[h].pc = "ownership"
    /\ Commit(h, EnterPrescribed([hostTasks[h] EXCEPT !.ownershipAssessment =
                  OwnershipOfError(hostWallets[gatewayHosts[h].fqdn], error)]))

\* the pool of names host entry h is assessing
CurrentTasks(h) ==
    IF hostTasks[h].pc = "prescribed" THEN hostTasks[h].prescribedTasks
    ELSE IF hostTasks[h].pc = "chosen" THEN hostTasks[h].chosenTasks
    ELSE <<>>

\* the mapper of name i of host entry h has come to `task`
CommitName(h, i, task) ==
    LET tasks == [CurrentTasks(h) EXCEPT ![i] = task]
        continued == IF task.pc = "done" THEN StartNextName(tasks) ELSE tasks
    IN IF hostTasks[h].pc = "prescribed"
       THEN Commit(h, AfterPrescribed([hostTasks[h] EXCEPT !.prescribedTasks = continued]))
       ELSE Commit(h, AfterChosen([hostTasks[h] EXCEPT !.chosenTasks = continued]))

NameReferenceResolves(h, i, resolution) ==
    /\ h \in 1..Len(hostTasks)
    /\ i \in 1..Len(CurrentTasks(h))
    /\ CurrentTasks(h)[i].pc = "reference"
    /\ CommitName(h, i, [CurrentTasks(h)[i] EXCEPT !.pc = "target", !.reference = resolution])

NameReferenceRejects(h, i, err) ==
    /\ h \in 1..Len(hostTasks)
    /\ i \in 1..Len(CurrentTasks(h))
    /\ CurrentTasks(h)[i].pc = "reference"
    /\ CommitName(h, i, MapperCatches(CurrentTasks(h)[i], err))

NameGatewayResolves(h, i, resolution) ==
    /\ h \in 1..Len(hostTasks)
    /\ i \in 1..Len(CurrentTasks(h))
    /\ CurrentTasks(h)[i].pc = "target"
    /\ CommitName(h, i, [CurrentTasks(h)[i] EXCEPT
                            !.pc = "done", !.gateway = resolution,
                            !.result = AssessArnsName(CurrentTasks(h)[i].reference, resolution)])

NameGatewayRejects(h, i, err) ==
    /\ h \in 1..Len(hostTasks)
    /\ i \in 1..Len(CurrentTasks(h))
    /\ CurrentTasks(h)[i].pc = "target"
    /\ CommitName(h, i, MapperCatches(CurrentTasks(h)[i], err))

ReportNext ==
    \/ GetEpochStartHeight
    \/ GetEpochEndHeight
    \/ GetPrescribedNames
    \/ GetChosenNames
    \/ GetHosts
    \/ SourceThrows
    \/ \E h \in 1..MaxHostEntries, wallet \in HostInfoWallets : HostInfoResolves(h, wallet)
    \/ \E h \in 1..MaxHostEntries, error \in HostInfoErrors : HostInfoRejects(h, error)
    \/ \E h \in 1..MaxHostEntries, i \in 1..MaxListLength, resolution \in ReferenceResolutions :
          NameReferenceResolves(h, i, resolution)
    \/ \E h \in 1..MaxHostEntries, i \in 1..MaxListLength, err \in ReferenceErrors :
          NameReferenceRejects(h, i, err)
    \/ \E h \in 1..MaxHostEntries, i \in 1..MaxListLength, resolution \in GatewayResolutions :
          NameGatewayResolves(h, i, resolution)
    \/ \E h \in 1..MaxHostEntries, i \in 1..MaxListLength, err \in GatewayErrors :
          NameGatewayRejects(h, i, err)

----------------------------------------------------------------------------
(* StaticArnsNamesSource: an ArnsNamesSource over a fixed list.  The class  *)
(* is imported by src/src/observer.test.ts from './observer.js'.            *)

\* new StaticArnsNamesSource(names)
StaticArnsNamesSource(list) == [names |-> list]

\* getNames() and getNames({ height })
NoArguments == [passed |-> FALSE]

GetNamesArguments == {NoArguments} \cup {[height |-> height] : height \in 0..MaxHeight}

\* a source that takes the height for the number of names asked for
GetNamesUpToHeight(this, arguments) ==
    IF arguments = NoArguments THEN this.names
    ELSE SubSeq(this.names, 1, Min(Len(this.names), arguments.height))

\* async getNames({ height }?): the fixed list
GetNames(this, arguments) == this.names

StaticNames == {"address1", "address2", "address3"}

NamesSourceIdle ==
    /\ addresses = <<>>
    /\ namesSource = StaticArnsNamesSource(<<>>)
    /\ getNamesCalls = 0
    /\ getNamesArguments = NoArguments
    /\ getNamesResult = <<>>

\* const source = new StaticArnsNamesSource(addresses)
NamesSourceInit ==
    /\ addresses \in SeqsUpTo(StaticNames, MaxStaticNames)
    /\ namesSource = StaticArnsNamesSource(addresses)
    /\ getNamesCalls = 0
    /\ getNamesArguments = NoArguments
    /\ getNamesResult = <<>>

\* const names = await source.getNames(arguments)
CallGetNames(arguments) ==
    /\ getNamesCalls < MaxGetNamesCalls
    /\ getNamesCalls' = getNamesCalls + 1
    /\ getNamesArguments' = arguments
    /\ getNamesResult' = GetNames(namesSource, arguments)
    /\ UNCHANGED <<addresses, namesSource>>
    /\ NamesSourceOnly

NamesSourceNext == \E arguments \in GetNamesArguments : CallGetNames(arguments)

----------------------------------------------------------------------------
(* Specifications *)

\* one probe by getArnsResolution
InitResolver == ResolverInit /\ AssessNameIdle /\ OwnershipIdle /\ ThresholdIdle /\ ReportIdle /\ NamesSourceIdle

SpecResolver == InitResolver /\ [][ResolverNext]_vars

\* one name mapper of assessArnsNames
InitAssessName == AssessNameInit /\ ResolverIdle /\ OwnershipIdle /\ ThresholdIdle /\ ReportIdle /\ NamesSourceIdle

SpecAssessName == InitAssessName /\ [][AssessNameNext]_vars

\* one call of assessOwnership
InitOwnership == OwnershipInit /\ ResolverIdle /\ AssessNameIdle /\ ThresholdIdle /\ ReportIdle /\ NamesSourceIdle

SpecOwnership == InitOwnership /\ [][OwnershipNext]_vars

\* the names verdict of one host
InitThreshold == ThresholdInit /\ ResolverIdle /\ AssessNameIdle /\ OwnershipIdle /\ ReportIdle /\ NamesSourceIdle

SpecThreshold == InitThreshold /\ [][ThresholdNext]_vars

\* one run of generateReport
Init == ReportInit /\ ResolverIdle /\ AssessNameIdle /\ OwnershipIdle /\ ThresholdIdle /\ NamesSourceIdle

Next == ReportNext

Spec == Init /\ [][Next]_vars

\* one StaticArnsNamesSource and the calls of its getNames
InitNamesSource ==
    NamesSourceInit /\ ResolverIdle /\ AssessNameIdle /\ OwnershipIdle /\ ThresholdIdle /\ ReportIdle

SpecNamesSource == InitNamesSource /\ [][NamesSourceNext]_vars

----------------------------------------------------------------------------
(* Claims about getArnsResolution *)

ViaResponse == promise.state = "resolved" /\ promise.value.dataHashDigest # Null

FirstBytes == SubSeq(body, 1, Min(Len(body), MAX_BYTES_TO_PROCESS))

\* C1: the hashed-byte counter never exceeds MAX and counts the bytes fed to
\* the digest, which are always a prefix of the body; when the probe resolves
\* through end-of-body or through the cap, the bytes fed are exactly the
\* first min(B, MAX) bytes of the body and the digest is the digest of those
\* bytes, whatever the chunking and whatever follows the first MAX bytes.
C1_DigestOfFirstBytes ==
    /\ streamBytesProcessed <= MAX_BYTES_TO_PROCESS
    /\ streamBytesProcessed = Len(dataHash)
    /\ dataHash = SubSeq(body, 1, Len(dataHash))
    /\ ViaResponse =>
         /\ dataHash = FirstBytes
         /\ promise.value.dataHashDigest = Digest(FirstBytes)

\* a probe of a body longer than the cap, delivered in several chunks, has
\* resolved through the cap
C1_Witness ==
    /\ ViaResponse
    /\ Len(body) > MAX_BYTES_TO_PROCESS
    /\ stream = "closed"
    /\ delivered > MAX_BYTES_TO_PROCESS

----------------------------------------------------------------------------
(* Claims about assessArnsName *)

Absent(v) == v \in {Null, Undefined}

\* the fields match: equal, or absent on both sides
Matches(property) ==
    \/ referenceResolution[property] = gatewayResolution[property]
    \/ Absent(referenceResolution[property]) /\ Absent(gatewayResolution[property])

BothResolved == anPc = "done" /\ gatewayResolution # NoResolution

ComparedFields == {"resolvedId", "ttlSeconds", "contentType", "dataHashDigest"}

\* C2: when both probes resolved, pass holds exactly when resolvedId,
\* ttlSeconds, contentType and dataHashDigest each match between reference
\* and target (absent on both sides is a match); the right-hand side does
\* not look at statusCode or contentLength.
C2_PassIffFieldsMatch ==
    BothResolved => (nameAssessment.pass <=> \A property \in ComparedFields : Matches(property))

\* both probes resolved, the four fields match and the assessment passes
\* although status code and content length differ
C2_Witness ==
    /\ BothResolved
    /\ nameAssessment.pass
    /\ referenceResolution.statusCode # gatewayResolution.statusCode
    /\ referenceResolution.contentLength # gatewayResolution.contentLength
    /\ referenceResolution.ttlSeconds = Undefined

RECURSIVE MismatchList(_)
MismatchList(properties) ==
    IF properties = <<>> THEN <<>>
    ELSE (IF Matches(Head(properties)) THEN <<>> ELSE <<Head(properties) \o " mismatch">>)
            \o MismatchList(Tail(properties))

\* C3: when both probes resolved, failureReason is the comma-joined list of
\* "<field> mismatch" over the compared fields, in order, that do not match
\* (a field absent on both sides is not listed), and it is absent exactly
\* when pass holds.
C3_FailureReasonListsMismatches ==
    BothResolved =>
        LET mismatches == MismatchList(<<"resolvedId", "ttlSeconds", "contentType", "dataHashDigest">>)
        IN /\ nameAssessment.failureReason =
                (IF mismatches = <<>> THEN Undefined ELSE Join(mismatches, ", "))
           /\ (nameAssessment.failureReason = Undefined) <=> nameAssessment.pass

----------------------------------------------------------------------------
(* Claims about assessOwnership *)

FailureReason(assessment) ==
    IF "failureReason" \in DOMAIN assessment THEN assessment.failureReason ELSE Undefined

OwnershipDone == ownPc = "done"

\* C7 as stated: assessOwnership always returns an assessment; it passes,
\* without failureReason, exactly when the response carries a wallet that is
\* in expectedWallets; a response without wallet gives "No wallet found"; a
\* wallet not in expectedWallets gives the "Wallet mismatch" message; an
\* error gives its message; pass holds iff observedWallet is in
\* expectedWallets.
C7_DecisionTableAsStated ==
    OwnershipDone =>
        LET a == ownershipAssessment
            carried == infoResult.kind = "json" /\ PresentWallet(infoResult.wallet)
            member == carried /\ Includes(expectedWallets, infoResult.wallet)
        IN /\ a.pass <=> member
           /\ a.pass => FailureReason(a) = Undefined
           /\ (infoResult.kind = "json" /\ ~carried) => FailureReason(a) = "No wallet found"
           /\ (carried /\ ~member) =>
                 FailureReason(a) = "Wallet mismatch: expected one of "
                     \o Join(expectedWallets, ", ") \o " but found " \o infoResult.wallet
           /\ infoResult.kind = "error" => FailureReason(a) = infoResult.message
           /\ a.pass <=> Includes(expectedWallets, a.observedWallet)

\* C7, amended: the same table, where an empty wallet counts as no wallet:
\* the assessment passes exactly when the response carries a non-empty wallet
\* that is in expectedWallets, and a response without wallet or with an
\* empty wallet gives "No wallet found".
C7_DecisionTable ==
    OwnershipDone =>
        LET a == ownershipAssessment
            carried == infoResult.kind = "json" /\ infoResult.wallet \notin {Undefined, ""}
            member == carried /\ Includes(expectedWallets, infoResult.wallet)
        IN /\ a.expectedWallets = expectedWallets
           /\ a.pass <=> member
           /\ a.pass => FailureReason(a) = Undefined /\ a.observedWallet = infoResult.wallet
           /\ (infoResult.kind = "json" /\ ~carried) => FailureReason(a) = "No wallet found"
           /\ (carried /\ ~member) =>
                 FailureReason(a) = "Wallet mismatch: expected one of "
                     \o Join(expectedWallets, ", ") \o " but found " \o infoResult.wallet
           /\ infoResult.kind = "error" => FailureReason(a) = infoResult.message
           /\ a.pass <=> Includes(expectedWallets, a.observedWallet)

\* the gateway answered with wallet Z, which none of two expected wallets is
C7_Witness ==
    /\ OwnershipDone
    /\ infoResult.kind = "json"
    /\ infoResult.wallet = "Z"
    /\ expectedWallets = <<"A", "B">>
    /\ ownershipAssessment.failureReason = "Wallet mismatch: expected one of A, B but found Z"

----------------------------------------------------------------------------
(* Claims about the names threshold *)

ThresholdDone == thPc = "done"

Disjoint == Range(thPrescribedNames) \cap Range(thChosenNames) = {}

\* the two maps side by side, an assessment of each list kept
BothLists(prescribed, chosen) ==
    [key \in ({"p"} \X DOMAIN prescribed) \cup ({"c"} \X DOMAIN chosen) |->
        IF key[1] = "p" THEN prescribed[key[2]] ELSE chosen[key[2]]]

\* the number of passing assessments of the two maps of the host's entry
PassesInBothLists == PassCount(BothLists(thVerdict.prescribedNames, thVerdict.chosenNames))

UniqueNames == Range(thPrescribedNames) \cup Range(thChosenNames)

\* C5: for lists that share no name, arnsAssessments.pass holds exactly when
\* the number P of passing name assessments satisfies 5 * P >= 4 * |U|, U the
\* set of unique names of both lists; with 10 unique names 8 passes pass and
\* 7 do not.
C5_ThresholdOnDisjointLists ==
    (ThresholdDone /\ Disjoint) =>
        /\ thVerdict.pass <=> 5 * PassesInBothLists >= 4 * Cardinality(UniqueNames)
        /\ (Cardinality(UniqueNames) = 10 /\ PassesInBothLists = 8) => thVerdict.pass
        /\ (Cardinality(UniqueNames) = 10 /\ PassesInBothLists = 7) => ~thVerdict.pass

\* ten unique names in disjoint lists, eight of them passing
C5_Witness ==
    /\ ThresholdDone /\ Disjoint
    /\ Cardinality(UniqueNames) = 10
    /\ PassesInBothLists = 8
    /\ thVerdict.pass

\* C6 as stated: the numerator counts the passing assessments of both
\* lists, a name of both lists once per list, and the denominator counts
\* each name once.
C6_NumeratorCountsBothLists ==
    ThresholdDone =>
        /\ thVerdict.namePassCount = PassesInBothLists
        /\ thVerdict.nameCount = Cardinality(UniqueNames)

\* C6, amended: a name of both lists is counted once in the numerator, by
\* its chosen-list assessment; the numerator is the number of passing
\* chosen-list assessments plus the number of passing prescribed-list
\* assessments of names that are not chosen.  The denominator counts each
\* name once.
C6_NumeratorCountsEachNameOnce ==
    ThresholdDone =>
        /\ thVerdict.namePassCount =
              PassCount(thVerdict.chosenNames)
                + Cardinality({name \in DOMAIN thVerdict.prescribedNames \ DOMAIN thVerdict.chosenNames :
                                  thVerdict.prescribedNames[name].pass})
        /\ thVerdict.nameCount = Cardinality(UniqueNames)

\* a name of both lists passed in both lists and counted once
C6_Witness ==
    /\ ThresholdDone
    /\ \E name \in Range(thPrescribedNames) \cap Range(thChosenNames) :
          /\ thVerdict.prescribedNames[name].pass
          /\ thVerdict.chosenNames[name].pass
    /\ thVerdict.namePassCount < PassesInBothLists

----------------------------------------------------------------------------
(* Claims about generateReport *)

HostEntries == 1..Len(hostTasks)

Fqdns(hosts) == {hosts[i].fqdn : i \in 1..Len(hosts)}

\* C4: in every entry of gatewayAssessments, and so in every report
\* returned, pass holds exactly when the entry's ownership assessment and
\* its names assessment both pass, also for a FQDN whose entry was written
\* by several concurrent mappers.
C4_GatewayPassIsConjunction ==
    /\ \A fqdn \in DOMAIN gatewayAssessments :
          LET g == gatewayAssessments[fqdn]
          IN g.pass <=> (g.ownershipAssessment.pass /\ g.arnsAssessments.pass)
    /\ grPc = "returned" =>
          \A fqdn \in DOMAIN report.gatewayAssessments :
              LET g == report.gatewayAssessments[fqdn]
              IN g.pass <=> (g.ownershipAssessment.pass /\ g.arnsAssessments.pass)

\* a report whose host list names a FQDN twice, both entries assessed, and
\* the FQDN fails on ownership although its names pass
C4_Witness ==
    /\ grPc = "returned"
    /\ Len(gatewayHosts) = 2
    /\ gatewayHosts[1].fqdn = gatewayHosts[2].fqdn
    /\ LET g == report.gatewayAssessments[gatewayHosts[1].fqdn]
       IN ~g.ownershipAssessment.pass /\ g.arnsAssessments.pass /\ ~g.pass

\* the name tasks of a host entry, with the list they belong to and the map
\* assessArnsNames returned for that list
ListsOf(h) ==
    {[names |-> prescribedNames, tasks |-> hostTasks[h].prescribedTasks,
      returned |-> hostTasks[h].pc \in {"chosen", "done"},
      assessments |-> hostTasks[h].prescribedAssessments],
     [names |-> chosenNames, tasks |-> hostTasks[h].chosenTasks,
      returned |-> hostTasks[h].pc = "done",
      assessments |-> hostTasks[h].chosenAssessments]}

Caught(task) == task.error # NoError

Compared(task) == task.pc = "done" /\ ~Caught(task)

IsFailureOf(assessment, err) ==
    /\ assessment.pass = FALSE
    /\ assessment.expectedId = Null
    /\ assessment.resolvedId = Null
    /\ assessment.expectedDataHash = Null
    /\ assessment.resolvedDataHash = Null
    /\ Len(assessment.failureReason) <= 512
    /\ assessment.failureReason = SubSeq(err.message, 1, Len(assessment.failureReason))
    /\ Len(assessment.failureReason) < 512 => assessment.failureReason = err.message

\* C8: when a probe of a name assessment rejected, the entry of that name in
\* the map assessArnsNames returns for the host has pass=false, the ids and
\* hashes absent, and the first 512 characters of the error message as
\* failureReason; no mapper and no run rejects because of it, and the names
\* whose probes both resolved keep the assessment of their comparison.
C8_ProbeFailureBecomesEntry ==
    \A h \in HostEntries : \A list \in ListsOf(h) :
        /\ hostTasks[h].pc # "rejected"
        /\ \A i \in 1..Len(list.tasks) :
              LET task == list.tasks[i]
              IN /\ task.pc # "rejected"
                 /\ Caught(task) =>
                       /\ task.pc = "done"
                       /\ list.returned => IsFailureOf(list.assessments[list.names[i]], task.error)
                 /\ (Compared(task) /\ list.returned) =>
                       list.assessments[list.names[i]] = AssessArnsName(task.reference, task.gateway)

\* a host entry whose chosen names have all been assessed: one of them
\* failed on a probe with a message of more than 512 characters, another
\* one passed
C8_Witness ==
    \E h \in HostEntries :
        /\ hostTasks[h].pc = "done"
        /\ \E i, j \in 1..Len(hostTasks[h].chosenTasks) :
              /\ Caught(hostTasks[h].chosenTasks[i])
              /\ Len(hostTasks[h].chosenTasks[i].error.message) > 512
              /\ Len(hostTasks[h].chosenAssessments[chosenNames[i]].failureReason) = 512
              /\ hostTasks[h].chosenAssessments[chosenNames[j]].pass

\* C9: a run raises only when a Source call failed, whatever the probes
\* did; a run that returns returns a report with an entry for every FQDN of
\* the host list, each with an assessment of every prescribed name and of
\* every chosen name.
C9_CompleteReportOrSourceError ==
    /\ grPc = "raised" => raised.name = "SourceError"
    /\ grPc = "returned" =>
          /\ DOMAIN report.gatewayAssessments = Fqdns(observer.observedGatewayHostList)
          /\ \A fqdn \in DOMAIN report.gatewayAssessments :
                LET arns == report.gatewayAssessments[fqdn].arnsAssessments
                IN /\ DOMAIN arns.prescribedNames = Range(observer.prescribedNamesSource)
                   /\ DOMAIN arns.chosenNames = Range(observer.chosenNamesSource)

\* a report returned although an ownership probe and a name probe failed
C9_Witness ==
    /\ grPc = "returned"
    /\ \E h \in HostEntries :
          /\ FailureReason(hostTasks[h].ownershipAssessment) = "Timeout awaiting 'request' for 2000ms"
          /\ \E i \in 1..Len(hostTasks[h].prescribedTasks) : Caught(hostTasks[h].prescribedTasks[i])
    /\ Cardinality(DOMAIN report.gatewayAssessments) = 2

InFlight(tasks) == {i \in 1..Len(tasks) : tasks[i].pc \in {"reference", "target"}}

HostsInProgress == {h \in HostEntries : hostTasks[h].pc \in {"ownership", "prescribed", "chosen"}}

RECURSIVE Sum(_, _)
Sum(f, S) == IF S = {} THEN 0 ELSE LET x == CHOOSE y \in S : TRUE IN f[x] + Sum(f, S \ {x})

\* every name assessment in flight has exactly one request outstanding,
\* and so has every host entry waiting for /ar-io/info
LiveRequests ==
    Cardinality({h \in HostEntries : hostTasks[h].pc = "ownership"})
      + Sum([h \in HostEntries |-> Cardinality(InFlight(hostTasks[h].prescribedTasks))
                                     + Cardinality(InFlight(hostTasks[h].chosenTasks))],
            HostEntries)

\* C10: at most gatewayAssessmentConcurrency host assessments are in
\* progress, each list of a host has at most nameAssessmentConcurrency name
\* assessments in progress, and at most
\* gatewayAssessmentConcurrency * (1 + 2 * nameAssessmentConcurrency)
\* requests are live.
C10_ConcurrencyBounds ==
    /\ Cardinality(HostsInProgress) <= observer.gatewayAsessementConcurrency
    /\ \A h \in HostEntries :
          /\ Cardinality(InFlight(hostTasks[h].prescribedTasks)) <= observer.nameAssessmentConcurrency
          /\ Cardinality(InFlight(hostTasks[h].chosenTasks)) <= observer.nameAssessmentConcurrency
    /\ LiveRequests <= observer.gatewayAsessementConcurrency
                          * (1 + 2 * observer.nameAssessmentConcurrency)

\* a pool of two names is full while a third name waits
C10_Witness ==
    \E h \in HostEntries :
        /\ Cardinality(InFlight(hostTasks[h].prescribedTasks)) = 2
        /\ observer.nameAssessmentConcurrency = 2
        /\ \E i \in 1..Len(hostTasks[h].prescribedTasks) : hostTasks[h].prescribedTasks[i].pc = "waiting"

\* the wallets of the host-list entries that name the FQDN
ClaimingWallets(hosts, fqdn) == {hosts[i].wallet : i \in {j \in 1..Len(hosts) : hosts[j].fqdn = fqdn}}

IsSortedUnion(array, wallets) ==
    /\ IsSorted(array)
    /\ Range(array) = wallets
    /\ Len(array) = Cardinality(wallets)

\* C11: for every FQDN of the report, ownershipAssessment.expectedWallets is
\* the ascending sorted union of the wallets of all host-list entries with
\* that FQDN: sorted, holding every claiming wallet, listing each wallet
\* once, whatever the order and multiplicity of the entries and whichever
\* duplicate entry finished last.
C11_ExpectedWalletsSortedUnion ==
    grPc = "returned" =>
        \A fqdn \in DOMAIN report.gatewayAssessments :
            IsSortedUnion(report.gatewayAssessments[fqdn].ownershipAssessment.expectedWallets,
                          ClaimingWallets(gatewayHosts, fqdn))

\* C12: when the reference probe and the probe of the host both yield the
\* synthetic 404 resolution, the assessment of the name passes, carries no
\* failureReason, and has expectedStatusCode = resolvedStatusCode = 404.
C12_NotFoundOnBothSidesPasses ==
    (anPc = "done" /\ referenceResolution = ResolveWith404 /\ gatewayResolution = ResolveWith404) =>
        /\ nameAssessment.pass = TRUE
        /\ nameAssessment.failureReason = Undefined
        /\ nameAssessment.expectedStatusCode = 404
        /\ nameAssessment.resolvedStatusCode = 404
        /\ nameAssessment.expectedId = Null
        /\ nameAssessment.resolvedDataHash = Null

\* a name both gateways answered with 404, assessed as passing
C12_Witness ==
    /\ anPc = "done"
    /\ referenceResolution.statusCode = 404
    /\ referenceResolution.dataHashDigest = Null
    /\ gatewayResolution = referenceResolution
    /\ nameAssessment.pass = TRUE
    /\ nameAssessment.resolvedStatusCode = 404

(* Claims about the terminal signals of getArnsResolution *)

ErrorDecided ==
    IF streamError.statusCode = 404
    THEN /\ promise.state = "resolved"
         /\ promise.value.statusCode = 404
         /\ \A field \in {"resolvedId", "ttlSeconds", "contentType", "contentLength",
                          "dataHashDigest", "timings"} : promise.value[field] = Null
         /\ dataHash = <<>>
         /\ streamBytesProcessed = 0
         /\ digestCalls = 0
    ELSE promise = [state |-> "rejected", value |-> streamError]

\* C14: the first terminal signal of the stream decides the probe: an error
\* carrying an HTTP 404 response resolves it with statusCode 404, every
\* other field absent and no body byte hashed; any other error rejects it,
\* with that error, and no resolution is produced; and once the probe is
\* settled no later signal changes its outcome.
C14_FirstTerminalSignalDecides ==
    /\ [](streamError # NoStreamError => ErrorDecided)
    /\ [][promise.state # "pending" => promise' = promise]_vars

\* a probe answered with 404: resolved by the error, and unchanged by the
\* 'close' that followed
C14_Witness ==
    /\ streamError.statusCode = 404
    /\ promise.state = "resolved"
    /\ promise.value.statusCode = 404
    /\ body # <<>>
    /\ stream = "closed"

(* Claims about the digest object of getArnsResolution *)

\* C18: the SHA-256 digest object of a probe is finalized exactly once on
\* every terminal path of the stream, whatever the order of the response,
\* data, end, close and error events: never twice, and once the stream has
\* closed never left unfinalized.
C18_DigestFinalizedExactlyOnce ==
    /\ digestCalls <= 1
    /\ stream = "closed" => digestCalls = 1

(* Claims about the probes of assessArnsName *)

\* C15: within one name assessment the probe of the host is never issued
\* before the probe of the reference gateway has completed, and at most one
\* probe goes to the reference gateway and at most one to the host: a probe
\* that failed is not issued again.
C15_ReferenceThenTargetOnce ==
    /\ probesIssued \in {<<"reference">>, <<"reference", "target">>}
    /\ probesIssued = <<"reference", "target">> <=> referenceResolution # NoResolution
    /\ anPc = "reference" => probesIssued = <<"reference">>

\* the probe of the host failed after the reference probe had resolved, and
\* the assessment ended with the two probes made
C15_Witness ==
    /\ anPc = "done"
    /\ referenceResolution # NoResolution
    /\ gatewayResolution = NoResolution
    /\ nameAssessment.pass = FALSE
    /\ probesIssued = <<"reference", "target">>

(* Claims about the two name lists of a host *)

\* the pool of a list is running: it was started and has a name in flight
\* or has finished
PoolStarted(names, tasks) ==
    /\ Len(tasks) = Len(names)
    /\ InFlight(tasks) # {} \/ PoolDone(tasks)

\* a prescribed-name assessment and a chosen-name assessment of host entry
\* h are in flight at the same time
PoolsOverlap(h) ==
    /\ InFlight(hostTasks[h].prescribedTasks) # {}
    /\ InFlight(hostTasks[h].chosenTasks) # {}

\* C16: the prescribed list and the chosen list of a host are assessed as
\* two independent pools running in parallel: while a prescribed name of a
\* host is in flight, the pool of its chosen names is running too, so that
\* a prescribed-name and a chosen-name assessment of the same host can be in
\* flight at the same time, each pool within nameAssessmentConcurrency.
C16_NamePoolsRunInParallel ==
    \A h \in HostEntries :
        /\ Cardinality(InFlight(hostTasks[h].prescribedTasks)) <= observer.nameAssessmentConcurrency
        /\ Cardinality(InFlight(hostTasks[h].chosenTasks)) <= observer.nameAssessmentConcurrency
        /\ (InFlight(hostTasks[h].prescribedTasks) # {} /\ chosenNames # <<>>) =>
              PoolStarted(chosenNames, hostTasks[h].chosenTasks)

\* what the code does instead: the pools of a host never overlap
NamePoolsNeverOverlap == \A h \in HostEntries : ~PoolsOverlap(h)

(* Claims about host-list entries that share a FQDN *)

\* the host-list entries of the FQDN whose mapper was started: each has
\* issued its own request of /ar-io/info and goes over the name lists itself
AssessmentsOf(fqdn) ==
    {h \in HostEntries : gatewayHosts[h].fqdn = fqdn /\ hostTasks[h].pc # "waiting"}

\* C17: when several host-list entries share a FQDN, generateReport makes
\* exactly one host assessment for that FQDN, one ownership probe and one
\* pass over the name lists, and records a single entry for it: the host is
\* not probed once per entry, and at the return every FQDN has been
\* assessed once.
C17_OneAssessmentPerFqdn ==
    /\ \A fqdn \in Fqdns(gatewayHosts) : Cardinality(AssessmentsOf(fqdn)) <= 1
    /\ grPc = "returned" =>
          \A fqdn \in Fqdns(gatewayHosts) : Cardinality(AssessmentsOf(fqdn)) = 1

(* Claims about the joins of generateReport and assessArnsNames *)

\* every name of the list has its task settled and its assessment in the map
Joined(list) ==
    /\ Len(list.tasks) = Len(list.names)
    /\ \A i \in 1..Len(list.tasks) : list.tasks[i].pc = "done"
    /\ DOMAIN list.assessments = Range(list.names)
    /\ \A name \in Range(list.names) : list.assessments[name] # NoAssessment

\* C19: every fan-out joins before its caller returns: when generateReport
\* has returned or raised, no host assessment, no name assessment and no
\* request of that run is in flight, and a call of assessArnsNames has
\* returned only when every name of its list has an assessment.
C19_FanOutsJoin ==
    /\ grPc \in {"returned", "raised"} =>
          /\ HostsInProgress = {}
          /\ LiveRequests = 0
          /\ \A h \in HostEntries : \A list \in ListsOf(h) :
                \A i \in 1..Len(list.tasks) : list.tasks[i].pc \notin {"reference", "target"}
    /\ grPc = "returned" =>
          \A h \in 1..Len(gatewayHosts) :
              /\ h \in HostEntries
              /\ hostTasks[h].pc = "done"
    /\ \A h \in HostEntries : \A list \in ListsOf(h) : list.returned => Joined(list)

\* a run over two host entries and both name lists has returned, after
\* every one of its name assessments was made
C19_Witness ==
    /\ grPc = "returned"
    /\ Len(gatewayHosts) >= 2
    /\ Len(prescribedNames) >= 1
    /\ Len(chosenNames) >= 2
    /\ \A h \in HostEntries :
          /\ Len(hostTasks[h].prescribedTasks) = Len(prescribedNames)
          /\ Len(hostTasks[h].chosenTasks) = Len(chosenNames)

(* Claims about the pass count of the names threshold *)

\* the verdict the merged map holds for a name: the chosen-list assessment
\* when the name is chosen, the prescribed-list assessment otherwise
CountedAsPassing(name) ==
    IF name \in DOMAIN thVerdict.chosenNames
    THEN thVerdict.chosenNames[name].pass
    ELSE thVerdict.prescribedNames[name].pass

\* C20: the pass count of the names threshold is taken over the prescribed
\* and chosen assessment maps merged by name: it never exceeds the number
\* of unique names, and for a name of both lists only the verdict of the
\* chosen-list assessment is counted, so a name that passed as prescribed
\* and failed as chosen counts as not passing.
C20_PassCountOverMergedMaps ==
    ThresholdDone =>
        /\ thVerdict.namePassCount <= Cardinality(UniqueNames)
        /\ thVerdict.namePassCount <= thVerdict.nameCount
        /\ thVerdict.namePassCount = Cardinality({name \in UniqueNames : CountedAsPassing(name)})
        /\ \A name \in Range(thPrescribedNames) \cap Range(thChosenNames) :
              (thVerdict.prescribedNames[name].pass /\ ~thVerdict.chosenNames[name].pass) =>
                  thVerdict.namePassCount <= Cardinality(UniqueNames \ {name})

\* a name of both lists passed as prescribed and failed as chosen; every
\* other name passed, and the count is one short of the number of names
C20_Witness ==
    /\ ThresholdDone
    /\ \E name \in Range(thPrescribedNames) \cap Range(thChosenNames) :
          /\ thVerdict.prescribedNames[name].pass
          /\ ~thVerdict.chosenNames[name].pass
          /\ \A other \in UniqueNames \ {name} : CountedAsPassing(other)
    /\ thVerdict.namePassCount = thVerdict.nameCount - 1

(* Claims about StaticArnsNamesSource *)

\* C13: getNames of a StaticArnsNamesSource returns exactly the list of
\* names given at construction, same elements in the same order, on every
\* call and whatever height is or is not passed.
C13_GetNamesReturnsConstructorList ==
    getNamesCalls \in 1..MaxGetNamesCalls => getNamesResult = addresses

\* a second call, with a height below the length of the list, of a source
\* made with three names not in alphabetical order
C13_Witness ==
    /\ getNamesCalls = 2
    /\ getNamesArguments = [height |-> 1]
    /\ addresses = <<"address2", "address1", "address3">>
    /\ getNamesResult = <<"address2", "address1", "address3">>

====
